---- MODULE Spec2Model ----
(***************************************************************************)
(* Model of the tensor dialect evaluators of the MLIR interpreter          *)
(* (tools/mlir_interpreter/dialects/tensor.cc).                            *)
(*                                                                         *)
(* A tensor value is a view (sizes, strides) onto a buffer of the heap;    *)
(* buffers are shared between values until clone() copies them.  Every     *)
(* evaluator of tensor.cc is an operator (or, where it loops over a        *)
(* callback, a sequence of steps) translated from its code.  The           *)
(* InterpreterValue / BufferView primitives and the region interpreter are *)
(* not part of tensor.cc; they are modelled from their documented          *)
(* contracts.                                                              *)
(***************************************************************************)
EXTENDS Integers, Sequences, FiniteSets, TLC

VARIABLES
    pc,        \* position of the evaluation: "idle", or inside/after an evaluator
    heap,      \* sequence of buffers; a buffer is a sequence of elements
    env,       \* sequence of tensor values bound so far (operands and results)
    log,       \* sequence of records, one per evaluator call that has returned
    failures,  \* number of addFailure calls so far; hasFailure() is failures > 0
    cur        \* registers of the evaluator in flight (loop counters, operands)

vars == <<pc, heap, env, log, failures, cur>>

(* ----------------------------- bounds --------------------------------- *)

\* Elements are drawn from 0..MaxVal; 0 is the default-initialized element.
MaxVal == 1

\* ShapedType::kDynamic; the code only tests it with isDynamic or "< 0".
Dynamic == -1

Val == 0..MaxVal

(* ------------------- BufferView / InterpreterValue --------------------- *)

RECURSIVE Prod(_)
Prod(s) == IF s = <<>> THEN 1 ELSE Head(s) * Prod(Tail(s))

\* Row-major, unit-stride layout of a freshly allocated tensor.
DefaultStrides(sizes) ==
    [i \in 1..Len(sizes) |-> Prod(SubSeq(sizes, i + 1, Len(sizes)))]

\* The k-th (0-based) index tuple of a shape in row-major order.
Unrank(k, sizes) ==
    [i \in 1..Len(sizes) |-> (k \div DefaultStrides(sizes)[i]) % sizes[i]]

\* view.indices(): all index tuples, last dimension fastest.
Indices(sizes) == [k \in 1..Prod(sizes) |-> Unrank(k - 1, sizes)]

\* view.inBounds(indices)
InBounds(view, indices) ==
    /\ Len(indices) = Len(view.sizes)
    /\ \A i \in 1..Len(indices) : 0 <= indices[i] /\ indices[i] < view.sizes[i]

RECURSIVE Dot(_, _)
Dot(a, b) ==
    IF a = <<>> \/ b = <<>> THEN 0 ELSE Head(a) * Head(b) + Dot(Tail(a), Tail(b))

\* Linear offset of an index tuple into the buffer.
PhysicalIndex(view, indices) == Dot(indices, view.strides)

TensorValue(b, sizes, strides) == [buf |-> b, sizes |-> sizes, strides |-> strides]

\* InterpreterValue::makeTensor / typedAlike: a fresh zero-filled buffer with
\* the default layout.  Returns the new heap and the new value.
MakeTensor(h, sizes) ==
    [heap |-> Append(h, [k \in 1..Prod(sizes) |-> 0]),
     val  |-> TensorValue(Len(h) + 1, sizes, DefaultStrides(sizes))]

\* clone(): same view, independent copy of the buffer.
Clone(h, t) ==
    [heap |-> Append(h, h[t.buf]),
     val  |-> TensorValue(Len(h) + 1, t.sizes, t.strides)]

\* extractElement(indices); requires InBounds.
ExtractElement(h, t, indices) == h[t.buf][PhysicalIndex(t, indices) + 1]

\* insertElement(indices, value); requires InBounds; writes the buffer in place.
InsertElement(h, t, indices, value) ==
    [h EXCEPT ![t.buf][PhysicalIndex(t, indices) + 1] = value]

\* The elements of a tensor in row-major order of its view.
Elements(h, t) ==
    [k \in 1..Prod(t.sizes) |-> ExtractElement(h, t, Unrank(k - 1, t.sizes))]

Scalar(v) == [kind |-> "scalar", val |-> v]
EmptyValue == [kind |-> "empty", val |-> 0]

(* ------------------------- extract, insert ----------------------------- *)

extract_noFailure(h, f, tensor, indices) ==
    IF ~InBounds(tensor, indices)
    THEN [failures |-> f, out |-> EmptyValue, reads |-> {}]
    ELSE [failures |-> f, out |-> Scalar(ExtractElement(h, tensor, indices)),
          reads |-> {indices}]

\* extract: bounds check, addFailure and an empty value, or the element.
extract(h, f, tensor, indices) ==
    IF ~InBounds(tensor, indices)
    THEN [failures |-> f + 1, out |-> EmptyValue, reads |-> {}]
    ELSE [failures |-> f, out |-> Scalar(ExtractElement(h, tensor, indices)),
          reads |-> {indices}]

insert_noWrite(h, f, value, tensor, indices) ==
    LET c == Clone(h, tensor)
    IN  IF InBounds(c.val, indices)
        THEN [heap |-> c.heap, failures |-> f, out |-> c.val, writes |-> {indices}]
        ELSE [heap |-> c.heap, failures |-> f + 1, out |-> c.val, writes |-> {}]

\* insert: clone, then write if in bounds, else addFailure; returns the clone.
insert(h, f, value, tensor, indices) ==
    LET c == Clone(h, tensor)
        result == c.val
    IN  IF InBounds(result, indices)
        THEN [heap |-> InsertElement(c.heap, result, indices, value),
              failures |-> f, out |-> result, writes |-> {indices}]
        ELSE [heap |-> c.heap, failures |-> f + 1, out |-> result, writes |-> {}]

(* --------------------- inputs of the point evaluators ------------------ *)

\* Operand shapes: rank 0, an empty tensor, a vector and a matrix.
PointShapes == {<<>>, <<0>>, <<3>>, <<2, 2>>}

\* Index tuples of the operand's rank, each coordinate from one below zero
\* to one past the last valid coordinate.
RECURSIVE MaxOf(_)
MaxOf(s) ==
    IF s = <<>> THEN 0
    ELSE IF Head(s) > MaxOf(Tail(s)) THEN Head(s) ELSE MaxOf(Tail(s))

IndexCandidates(sizes) ==
    {ix \in [1..Len(sizes) -> -1..MaxOf(sizes)] :
        \A i \in 1..Len(sizes) : ix[i] <= sizes[i]}

NoCur == [op |-> "none"]

InitPoint ==
    /\ pc = "idle"
    /\ \E sizes \in PointShapes : \E data \in [1..Prod(sizes) -> Val] :
          /\ heap = <<data>>
          /\ env = <<TensorValue(1, sizes, DefaultStrides(sizes))>>
    /\ log = <<>>
    /\ failures \in {0, 1}
    /\ cur = NoCur

\* One evaluation of tensor.insert on a bound tensor.
Insert ==
    /\ pc = "idle"
    /\ \E b \in DOMAIN env : \E indices \in IndexCandidates(env[b].sizes) :
       \E value \in Val :
          LET r == insert(heap, failures, value, env[b], indices)
          IN  /\ heap' = r.heap
              /\ failures' = r.failures
              /\ env' = Append(env, r.out)
              /\ log' = Append(log, [name |-> "insert", tensor |-> b,
                                     indices |-> indices, value |-> value,
                                     out |-> Len(env) + 1,
                                     before |-> Elements(heap, env[b]),
                                     failuresBefore |-> failures,
                                     failuresAfter |-> r.failures,
                                     writes |-> r.writes])
    /\ pc' = "inserted"
    /\ UNCHANGED cur

\* One evaluation of tensor.extract on a bound tensor (an operand or the
\* result of the preceding insert).
Extract ==
    /\ pc \in {"idle", "inserted"}
    /\ \E b \in DOMAIN env : \E indices \in IndexCandidates(env[b].sizes) :
          LET r == extract(heap, failures, env[b], indices)
          IN  /\ failures' = r.failures
              /\ log' = Append(log, [name |-> "extract", tensor |-> b,
                                     indices |-> indices, out |-> r.out,
                                     failuresBefore |-> failures,
                                     failuresAfter |-> r.failures,
                                     reads |-> r.reads])
    /\ pc' = "extracted"
    /\ UNCHANGED <<heap, env, cur>>

NextPoint == Insert \/ Extract

SpecPoint == InitPoint /\ [][NextPoint]_vars

(* ---------------- static attributes and dynamic operands --------------- *)

\* replaceDynamicVals: every dynamic entry of the static list takes the next
\* value of the dynamic operand list, in order.
RECURSIVE ReplaceDynamicVals(_, _)
ReplaceDynamicVals(static, dyn) ==
    IF static = <<>> THEN <<>>
    ELSE IF Head(static) = Dynamic
         THEN <<Head(dyn)>> \o ReplaceDynamicVals(Tail(static), Tail(dyn))
         ELSE <<Head(static)>> \o ReplaceDynamicVals(Tail(static), dyn)

\* extractOffsetsSizesStrides: the same substitution for the three lists.
extractOffsetsSizesStrides(dynamicOffsets, dynamicSizes, dynamicStrides, op) ==
    [offsets |-> ReplaceDynamicVals(op.staticOffsets, dynamicOffsets),
     sizes   |-> ReplaceDynamicVals(op.staticSizes, dynamicSizes),
     strides |-> ReplaceDynamicVals(op.staticStrides, dynamicStrides)]

(* ------------------------------ extractSlice --------------------------- *)

SliceSrcIndices_noOffset(v, indices) ==
    [i \in 1..Len(v.offsets) |-> indices[i] * v.strides[i]]

\* The source coordinate extractSlice reads for an output coordinate.
SliceSrcIndices(v, indices) ==
    [i \in 1..Len(v.offsets) |-> indices[i] * v.strides[i] + v.offsets[i]]

\* out.fill(...) of extractSlice: element k of the output is read from the
\* source coordinate without a bounds check.  A coordinate outside the
\* source is an out-of-bounds read; g gives what such a read returns.
extractSliceFill(h, tensor, v, g) ==
    [k \in 1..Prod(v.sizes) |->
        LET src == SliceSrcIndices(v, Unrank(k - 1, v.sizes))
        IN  IF InBounds(tensor, src) THEN ExtractElement(h, tensor, src) ELSE g[k]]

\* The source coordinates the fill passes to extractElement.
extractSliceReads(v) ==
    {SliceSrcIndices(v, Unrank(k - 1, v.sizes)) : k \in 1..Prod(v.sizes)}

Erase(s, i) == SubSeq(s, 1, i - 1) \o SubSeq(s, i + 1, Len(s))

rankReduceStep_dropAllUnit(r) ==
    IF r.numDropped + r.dim + 1 > Len(r.staticSizes)
    THEN [r EXCEPT !.overrun = TRUE]
    ELSE IF r.staticSizes[r.numDropped + r.dim + 1] = 1
         THEN [r EXCEPT !.sizes = Erase(@, r.dim + 1),
                        !.strides = Erase(@, r.dim + 1),
                        !.numDropped = @ + 1]
         ELSE [r EXCEPT !.dim = @ + 1]

\* One iteration of the rank-reduction loop of extractSlice.  r holds the
\* output view (sizes, strides), dim, numDropped and the two attribute
\* lists; overrun records a read of staticSizes past its end.
rankReduceStep(r) ==
    IF r.numDropped + r.dim + 1 > Len(r.staticSizes)
    THEN [r EXCEPT !.overrun = TRUE]
    ELSE IF /\ r.staticSizes[r.numDropped + r.dim + 1] = 1
            /\ (r.dim >= Len(r.resultSizes) \/ r.resultSizes[r.dim + 1] # 1)
         THEN [r EXCEPT !.sizes = Erase(@, r.dim + 1),
                        !.strides = Erase(@, r.dim + 1),
                        !.numDropped = @ + 1]
         ELSE [r EXCEPT !.dim = @ + 1]

(* ------------------------------ insertSlice ---------------------------- *)

\* The dimensions of the static size list that are absent from src: the
\* loop over enumerate(staticSizes) with the iterator srcSizeIt (here it).
RECURSIVE InsertedDims(_, _, _, _)
InsertedDims(staticSizes, srcSizes, dim, it) ==
    IF dim >= Len(staticSizes) THEN <<>>
    ELSE LET size == staticSizes[dim + 1]
         IN  IF it > Len(srcSizes) \/ (srcSizes[it] # size /\ size >= 0)
             THEN <<dim>> \o InsertedDims(staticSizes, srcSizes, dim + 1, it)
             ELSE InsertedDims(staticSizes, srcSizes, dim + 1, it + 1)

\* srcWithInsertedDims: a zero inserted at each inserted dimension, in order.
RECURSIVE WithInsertedDims(_, _)
WithInsertedDims(srcIndices, insertedDims) ==
    IF insertedDims = <<>> THEN srcIndices
    ELSE LET d == Head(insertedDims)
         IN  WithInsertedDims(
                 SubSeq(srcIndices, 1, d) \o <<0>>
                     \o SubSeq(srcIndices, d + 1, Len(srcIndices)),
                 Tail(insertedDims))

Min(a, b) == IF a < b THEN a ELSE b

\* dstIndices: zip(srcWithInsertedDims, strides, offsets), index*stride+offset.
SliceDstIndices(srcIndices, insertedDims, v) ==
    LET w == WithInsertedDims(srcIndices, insertedDims)
        n == Min(Len(w), Min(Len(v.strides), Len(v.offsets)))
    IN  [i \in 1..n |-> w[i] * v.strides[i] + v.offsets[i]]

\* dest.insertElement(dstIndices, value) as insertSlice calls it, with no
\* bounds check.  In bounds it writes the element.  Out of bounds it is an
\* out-of-bounds write: at a linear offset inside the buffer it overwrites
\* that element; past the buffer it lands outside every tensor
\* (victim = <<>>) or in the element victim = <<buffer, position>> of
\* whatever buffer lies there.
SliceWrite(h, dest, dstIndices, value, victim) ==
    LET at == PhysicalIndex(dest, dstIndices) + 1
    IN  IF InBounds(dest, dstIndices) THEN InsertElement(h, dest, dstIndices, value)
        ELSE IF at \in DOMAIN h[dest.buf] THEN [h EXCEPT ![dest.buf][at] = value]
        ELSE IF victim = <<>> THEN h
        ELSE [h EXCEPT ![victim[1]][victim[2]] = value]

\* The places an out-of-bounds write past a buffer can land in.
Victims(h) ==
    {<<>>} \cup UNION {{<<b, p>> : p \in DOMAIN h[b]} : b \in DOMAIN h}

\* The loop of insertSlice over srcView.indices(), from the k-th index on.
RECURSIVE insertSliceWrites(_, _, _, _, _, _, _)
insertSliceWrites(h, src, dest, v, insertedDims, victim, k) ==
    IF k > Prod(src.sizes) THEN h
    ELSE LET srcIndices == Unrank(k - 1, src.sizes)
             dstIndices == SliceDstIndices(srcIndices, insertedDims, v)
         IN  insertSliceWrites(
                 SliceWrite(h, dest, dstIndices,
                            ExtractElement(h, src, srcIndices), victim),
                 src, dest, v, insertedDims, victim, k + 1)

\* insertSlice<Op>: the destination is cloned when the operation has a
\* result (insert_slice) and written in place when it has none
\* (parallel_insert_slice).
insertSlice(h, numResults, src, dest, op, victim) ==
    LET c == IF numResults = 1 THEN Clone(h, dest) ELSE [heap |-> h, val |-> dest]
        v == extractOffsetsSizesStrides(op.dynamicOffsets, op.dynamicSizes,
                                        op.dynamicStrides, op)
        insertedDims == InsertedDims(op.staticSizes, src.sizes, 0, 1)
    IN  [heap    |-> insertSliceWrites(c.heap, src, c.val, v, insertedDims,
                                       victim, 1),
         dest    |-> c.val,
         results |-> IF numResults = 1 THEN <<c.val>> ELSE <<>>,
         writes  |-> {SliceDstIndices(Unrank(k - 1, src.sizes), insertedDims, v) :
                         k \in 1..Prod(src.sizes)}]

(* --------------------- inputs of the slice evaluators ------------------ *)

\* Strides of a slice are drawn from 1..MaxStride.
MaxStride == 2

\* Operand shapes: a vector, a matrix and a rank-3 tensor with a unit dimension.
SliceShapes == {<<4>>, <<2, 2>>, <<1, 2, 2>>}

\* Resolved offsets: every start coordinate of the operand for vectors and
\* matrices (with sizes and strides above one these reach past the end),
\* the origin for rank 3.
SliceOffsets(sizes) ==
    IF Len(sizes) <= 2
    THEN {o \in [1..Len(sizes) -> 0..(MaxOf(sizes) - 1)] :
             \A i \in 1..Len(sizes) : o[i] < sizes[i]}
    ELSE {[i \in 1..Len(sizes) |-> 0]}

\* Resolved strides: any for a vector, the same in every dimension for a
\* matrix, one for rank 3.
SliceStrides(sizes) ==
    IF Len(sizes) <= 2
    THEN {[i \in 1..Len(sizes) |-> st] : st \in 1..MaxStride}
    ELSE {[i \in 1..Len(sizes) |-> 1]}

\* Resolved sizes: one or two per dimension, at most the operand's extent.
SliceSizes(sizes) ==
    {sz \in [1..Len(sizes) -> 1..2] : \A i \in 1..Len(sizes) : sz[i] <= sizes[i]}

\* s without the entries at the positions in drop.
RECURSIVE Without(_, _, _)
Without(s, drop, i) ==
    IF i > Len(s) THEN <<>>
    ELSE (IF i \in drop THEN <<>> ELSE <<s[i]>>) \o Without(s, drop, i + 1)

\* The declared result shapes of an extract_slice with the given static
\* sizes: any subset of its static unit dimensions dropped.
ResultShapes(staticSizes) ==
    {Without(staticSizes, drop, 1) :
        drop \in SUBSET {i \in 1..Len(staticSizes) : staticSizes[i] = 1}}

\* The static attributes and dynamic operands of a slice operation with the
\* given resolved values: offsets and strides are all static or all
\* dynamic, each size is static or dynamic.
SliceOp(offsets, sizes, strides, dyn, dynSizes) ==
    [staticOffsets  |-> IF dyn THEN [i \in DOMAIN offsets |-> Dynamic] ELSE offsets,
     dynamicOffsets |-> IF dyn THEN offsets ELSE <<>>,
     staticStrides  |-> IF dyn THEN [i \in DOMAIN strides |-> Dynamic] ELSE strides,
     dynamicStrides |-> IF dyn THEN strides ELSE <<>>,
     staticSizes    |-> [i \in DOMAIN sizes |->
                            IF i \in dynSizes THEN Dynamic ELSE sizes[i]],
     dynamicSizes   |-> Without(sizes, DOMAIN sizes \ dynSizes, 1)]

\* Either every attribute is static, or offsets and strides are dynamic
\* operands and each size is static or dynamic.
SliceOps(shape) ==
    {SliceOp(o, sz, st, mode.dyn, mode.dynSizes) :
        o \in SliceOffsets(shape), sz \in SliceSizes(shape),
        st \in SliceStrides(shape),
        mode \in {[dyn |-> FALSE, dynSizes |-> {}]} \cup
                 {[dyn |-> TRUE, dynSizes |-> d] : d \in SUBSET (1..Len(shape))}}

\* The offsets insertSlice is evaluated at after an extractSlice at
\* offsets o: the same, or one further in the last dimension.
InsertOffsets(o) == {o, [o EXCEPT ![Len(o)] = @ + 1]}

\* Contents of a slice operand with n elements: all zero, or zero except
\* for one nonzero element.  The slice evaluators only move elements, so
\* these contents tell every coordinate from every other.
SliceData(n) ==
    {[k \in 1..n |-> 0]} \cup
    {[k \in 1..n |-> IF k = at THEN x ELSE 0] : at \in 1..n, x \in Val \ {0}}

InitSlice ==
    /\ pc = "idle"
    /\ \E sizes \in SliceShapes : \E data \in SliceData(Prod(sizes)) :
          /\ heap = <<data>>
          /\ env = <<TensorValue(1, sizes, DefaultStrides(sizes))>>
    /\ log = <<>>
    /\ failures = 0
    /\ cur = NoCur

\* extractSlice up to the end of out.fill(...).  An out-of-bounds read
\* either returns some element value or ends the process.
ExtractSliceBegin ==
    /\ pc = "idle"
    /\ \E op \in SliceOps(env[1].sizes) :
       \E resultSizes \in ResultShapes(op.staticSizes) :
          LET tensor == env[1]
              v == extractOffsetsSizesStrides(op.dynamicOffsets, op.dynamicSizes,
                                              op.dynamicStrides, op)
              m == MakeTensor(heap, v.sizes)
              oob == {k \in 1..Prod(v.sizes) :
                         ~InBounds(tensor, SliceSrcIndices(v, Unrank(k - 1, v.sizes)))}
              entry == [name |-> "extractSlice", tensor |-> 1, op |-> op,
                        resultSizes |-> resultSizes, v |-> v,
                        before |-> Elements(heap, tensor),
                        reads |-> extractSliceReads(v),
                        out |-> 0, numDropped |-> 0]
          IN  \/ \E g \in [1..Prod(v.sizes) -> Val] :
                    /\ \A k \in DOMAIN g : k \notin oob => g[k] = 0
                    /\ heap' = [m.heap EXCEPT ![m.val.buf] =
                                   extractSliceFill(heap, tensor, v, g)]
                    /\ pc' = "rankReduce"
                    /\ cur' = [op |-> "extractSlice", entry |-> entry,
                               out |-> m.val.buf,
                               r |-> [sizes |-> m.val.sizes,
                                      strides |-> m.val.strides,
                                      dim |-> 0, numDropped |-> 0,
                                      staticSizes |-> op.staticSizes,
                                      resultSizes |-> resultSizes,
                                      overrun |-> FALSE]]
                    /\ UNCHANGED <<env, log>>
              \/ /\ oob # {}
                 /\ heap' = m.heap
                 /\ pc' = "crashed"
                 /\ log' = Append(log, entry)
                 /\ UNCHANGED <<env, cur>>
    /\ UNCHANGED failures

\* One iteration of "while (dim < outView.rank())".
RankReduceStep ==
    /\ pc = "rankReduce"
    /\ ~cur.r.overrun
    /\ cur.r.dim < Len(cur.r.sizes)
    /\ cur' = [cur EXCEPT !.r = rankReduceStep(cur.r)]
    /\ UNCHANGED <<pc, heap, env, log, failures>>

\* The loop has ended: extractSlice returns out with its reduced view.
ExtractSliceReturn ==
    /\ pc = "rankReduce"
    /\ ~cur.r.overrun
    /\ cur.r.dim >= Len(cur.r.sizes)
    /\ env' = Append(env, TensorValue(cur.out, cur.r.sizes, cur.r.strides))
    /\ log' = Append(log, [cur.entry EXCEPT !.out = Len(env) + 1,
                                             !.numDropped = cur.r.numDropped])
    /\ pc' = "sliced"
    /\ cur' = NoCur
    /\ UNCHANGED <<heap, failures>>

\* One evaluation of insert_slice (numResults = 1) or parallel_insert_slice
\* (numResults = 0) of the slice into the operand it was taken from, with
\* the sizes and strides of the extract_slice, at its offsets or at others.
\* An out-of-bounds write either lands somewhere or ends the process.
InsertSlice ==
    /\ pc = "sliced"
    /\ \E numResults \in {0, 1} : \E o \in InsertOffsets(log[Len(log)].v.offsets) :
          LET ex == log[Len(log)]
              dyn == ex.op.dynamicOffsets # <<>>
              op == [ex.op EXCEPT !.staticOffsets = IF dyn THEN @ ELSE o,
                                  !.dynamicOffsets = IF dyn THEN o ELSE @]
              src == env[ex.out]
              dest == env[1]
          IN  \E safe \in {insertSlice(heap, numResults, src, dest, op, <<>>)} :
              LET oob == \E w \in safe.writes : ~InBounds(safe.dest, w)
                  past == \E w \in safe.writes :
                             PhysicalIndex(safe.dest, w) + 1
                                 \notin DOMAIN heap[dest.buf]
                  entry == [name |-> "insertSlice", src |-> ex.out, dest |-> 1,
                            op |-> op, numResults |-> numResults,
                            destView |-> safe.dest, writes |-> safe.writes,
                            results |-> safe.results,
                            destBefore |-> Elements(heap, dest)]
              IN  \/ /\ IF past
                        THEN \E victim \in Victims(heap) :
                                heap' = insertSlice(heap, numResults, src, dest,
                                                    op, victim).heap
                        ELSE heap' = safe.heap
                     /\ env' = env \o safe.results
                     /\ log' = Append(log, entry)
                     /\ pc' = "inserted"
                  \/ /\ oob
                     /\ heap' = heap
                     /\ env' = env
                     /\ log' = Append(log, entry)
                     /\ pc' = "crashed"
    /\ UNCHANGED <<failures, cur>>

NextSlice ==
    \/ ExtractSliceBegin
    \/ RankReduceStep
    \/ ExtractSliceReturn
    \/ InsertSlice

SpecSlice == InitSlice /\ [][NextSlice]_vars

(* ------------------------- region callback ----------------------------- *)

\* interpret(state, region, args) as the evaluators see it: what one call
\* can do, given whether a failure was already raised before it, whether
\* the region raises a failure for this argument, and the value the region
\* computes for it.  A call that raises a failure may or may not yield
\* values; a call entered with the failure flag already set may stop before
\* it yields any.  raised: the call itself calls addFailure.
RegionOutcomes(hadFailure, fails, value) ==
    IF fails
    THEN {[raised |-> TRUE, values |-> <<>>], [raised |-> TRUE, values |-> <<value>>]}
    ELSE IF hadFailure
         THEN {[raised |-> FALSE, values |-> <<value>>],
               [raised |-> FALSE, values |-> <<>>]}
         ELSE {[raised |-> FALSE, values |-> <<value>>]}

(* ------------------------------ generate ------------------------------- *)

generateElement_ignoreFlag(hasFailure, values, existing) ==
    IF values = <<>> THEN existing ELSE values[1]

\* The body of the lambda generate passes to fill, after the region call:
\* with the failure flag set, the element already in the result; otherwise
\* values.front().
generateElement(hasFailure, values, existing) ==
    IF hasFailure THEN existing ELSE values[1]

\* Extents of the generated vectors are drawn from 0..MaxGenExtent.
MaxGenExtent == 3

\* Declared result types of generate with their dynamic size operands:
\* vectors of static or dynamic extent, and a matrix.
GenerateOps ==
    {[shape |-> <<n>>, dynamicSizes |-> <<>>] : n \in 0..MaxGenExtent}
    \cup {[shape |-> <<Dynamic>>, dynamicSizes |-> <<n>>] : n \in 0..MaxGenExtent}
    \cup {[shape |-> <<2, Dynamic>>, dynamicSizes |-> <<2>>]}

InitGenerate ==
    /\ pc = "idle"
    /\ heap = <<>>
    /\ env = <<>>
    /\ log = <<>>
    /\ failures \in {0, 1}
    /\ cur = NoCur

\* generate up to the start of result.fill(...).  f[k] is the value the
\* region computes for the k-th coordinate and failAt the coordinates for
\* which it raises a failure.
GenerateBegin ==
    /\ pc = "idle"
    /\ \E op \in GenerateOps :
          LET sizes == ReplaceDynamicVals(op.shape, op.dynamicSizes)
              m == MakeTensor(heap, sizes)
          IN  \E f \in [1..Prod(sizes) -> Val] : \E failAt \in SUBSET (1..Prod(sizes)) :
                 /\ heap' = m.heap
                 /\ cur' = [op |-> "generate", result |-> m.val, k |-> 1,
                            f |-> f, failAt |-> failAt,
                            failuresBefore |-> failures]
    /\ pc' = "generate"
    /\ UNCHANGED <<env, log, failures>>

\* One iteration of fill: the region is called for the k-th coordinate.
GenerateStep ==
    /\ pc = "generate"
    /\ cur.k <= Prod(cur.result.sizes)
    /\ LET indices == Unrank(cur.k - 1, cur.result.sizes)
       IN  \E o \in RegionOutcomes(failures > 0, cur.k \in cur.failAt, cur.f[cur.k]) :
              LET after == IF o.raised THEN failures + 1 ELSE failures
              IN  /\ failures' = after
                  /\ heap' = InsertElement(heap, cur.result, indices,
                                generateElement(after > 0, o.values,
                                    ExtractElement(heap, cur.result, indices)))
    /\ cur' = [cur EXCEPT !.k = @ + 1]
    /\ UNCHANGED <<pc, env, log>>

\* fill has visited every coordinate: generate returns the result.
GenerateReturn ==
    /\ pc = "generate"
    /\ cur.k > Prod(cur.result.sizes)
    /\ env' = Append(env, cur.result)
    /\ log' = Append(log, [name |-> "generate", f |-> cur.f, failAt |-> cur.failAt,
                           failuresBefore |-> cur.failuresBefore,
                           failuresAfter |-> failures, out |-> Len(env) + 1])
    /\ pc' = "generated"
    /\ cur' = NoCur
    /\ UNCHANGED <<heap, failures>>

NextGenerate == GenerateBegin \/ GenerateStep \/ GenerateReturn

SpecGenerate == InitGenerate /\ [][NextGenerate]_vars

(* --------------------------------- pad --------------------------------- *)

\* resultSizes of pad: size + low + high per dimension (zip of the three).
padResultSizes(sizes, lows, highs) ==
    [i \in 1..Min(Len(sizes), Min(Len(lows), Len(highs))) |->
        sizes[i] + lows[i] + highs[i]]

padInIndex_noLow(outIndex, lows) ==
    [i \in 1..Min(Len(outIndex), Len(lows)) |-> outIndex[i]]

\* inIndex of pad: index - low per dimension.
padInIndex(outIndex, lows) ==
    [i \in 1..Min(Len(outIndex), Len(lows)) |-> outIndex[i] - lows[i]]

\* The body of the lambda pad passes to fill: the input element when the
\* input coordinate is in bounds, else front() of the region's values.  pad
\* does not look at the failure flag.  front() of an empty vector is
\* undefined; garbage is what it yields when it yields anything.
padElement(inBounds, element, values, garbage) ==
    IF inBounds THEN element
    ELSE IF values # <<>> THEN values[1] ELSE garbage

\* Pad amounts of a vector are drawn from 0..MaxPad.
MaxPad == 1

\* Operands of pad: vectors of extent 0 and 2, and a 1 x 2 matrix.
PadShapes == {<<0>>, <<2>>, <<1, 2>>}

\* Resolved low and high pad amounts: any for a vector; for a matrix, rows
\* are added after the input and columns before it.
PadAmounts(sizes) ==
    IF Len(sizes) = 1
    THEN {[low |-> <<l>>, high |-> <<h>>] : l \in 0..MaxPad, h \in 0..MaxPad}
    ELSE {[low |-> <<0, l>>, high |-> <<h, 0>>] : l \in 0..1, h \in 0..1}

\* The values a pad region computes for the k-th output coordinate: a
\* constant fill, or a value that changes with the coordinate.
PadRegions ==
    {[kind |-> "constant", c |-> c] : c \in Val} \cup {[kind |-> "indexed", c |-> 0]}

PadRegionValue(region, k) ==
    IF region.kind = "constant" THEN region.c ELSE (region.c + k) % (MaxVal + 1)

InitPad ==
    /\ pc = "idle"
    /\ \E sizes \in PadShapes : \E data \in [1..Prod(sizes) -> Val] :
          /\ heap = <<data>>
          /\ env = <<TensorValue(1, sizes, DefaultStrides(sizes))>>
    /\ log = <<>>
    /\ failures = 0
    /\ cur = NoCur

\* pad up to the start of result.fill(...).  The low and high amounts are
\* static attributes or dynamic operands; failAt are the output coordinates
\* for which the region raises a failure (at most one of them).
PadBegin ==
    /\ pc = "idle"
    /\ \E amounts \in PadAmounts(env[1].sizes) : \E dyn \in BOOLEAN :
       \E region \in PadRegions :
          LET none == [i \in DOMAIN amounts.low |-> Dynamic]
              lows == ReplaceDynamicVals(IF dyn THEN none ELSE amounts.low,
                                         IF dyn THEN amounts.low ELSE <<>>)
              highs == ReplaceDynamicVals(IF dyn THEN none ELSE amounts.high,
                                          IF dyn THEN amounts.high ELSE <<>>)
              m == MakeTensor(heap, padResultSizes(env[1].sizes, lows, highs))
              padding == {k \in 1..Prod(m.val.sizes) :
                             ~InBounds(env[1],
                                 [i \in DOMAIN lows |->
                                     Unrank(k - 1, m.val.sizes)[i] - lows[i]])}
          IN  \E failAt \in SUBSET padding :
                 /\ Cardinality(failAt) <= 1
                 /\ heap' = m.heap
                 /\ cur' = [op |-> "pad", result |-> m.val, k |-> 1,
                            lows |-> lows, highs |-> highs, region |-> region,
                            failAt |-> failAt, calls |-> <<>>,
                            before |-> Elements(heap, env[1])]
    /\ pc' = "pad"
    /\ UNCHANGED <<env, log, failures>>

\* One iteration of fill: the k-th output coordinate is copied from the
\* input or computed by the region.  When the region yields no value,
\* front() either yields some element value or ends the process.
PadStep ==
    /\ pc = "pad"
    /\ cur.k <= Prod(cur.result.sizes)
    /\ LET outIndex == Unrank(cur.k - 1, cur.result.sizes)
           inIndex == padInIndex(outIndex, cur.lows)
           tensor == env[1]
       IN  IF InBounds(tensor, inIndex)
           THEN /\ heap' = InsertElement(heap, cur.result, outIndex,
                              padElement(TRUE, ExtractElement(heap, tensor, inIndex),
                                         <<>>, 0))
                /\ cur' = [cur EXCEPT !.k = @ + 1]
                /\ UNCHANGED <<pc, failures>>
           ELSE \E o \in RegionOutcomes(failures > 0, cur.k \in cur.failAt,
                                        PadRegionValue(cur.region, cur.k)) :
                   LET call == [k |-> cur.k, raised |-> o.raised,
                                values |-> o.values]
                   IN  /\ failures' = IF o.raised THEN failures + 1 ELSE failures
                       /\ \/ \E garbage \in Val :
                                /\ o.values # <<>> => garbage = 0
                                /\ heap' = InsertElement(heap, cur.result, outIndex,
                                              padElement(FALSE, 0, o.values, garbage))
                                /\ cur' = [cur EXCEPT !.k = @ + 1,
                                                      !.calls = Append(@, call)]
                                /\ pc' = pc
                          \/ /\ o.values = <<>>
                             /\ heap' = heap
                             /\ cur' = [cur EXCEPT !.calls = Append(@, call)]
                             /\ pc' = "crashed"
    /\ UNCHANGED <<env, log>>

\* fill has visited every coordinate: pad returns the result.
PadReturn ==
    /\ pc = "pad"
    /\ cur.k > Prod(cur.result.sizes)
    /\ env' = Append(env, cur.result)
    /\ log' = Append(log, [name |-> "pad", lows |-> cur.lows, highs |-> cur.highs,
                           region |-> cur.region, failAt |-> cur.failAt,
                           calls |-> cur.calls, before |-> cur.before,
                           out |-> Len(env) + 1])
    /\ pc' = "padded"
    /\ cur' = NoCur
    /\ UNCHANGED <<heap, failures>>

NextPad == PadBegin \/ PadStep \/ PadReturn

SpecPad == InitPad /\ [][NextPad]_vars

(* --------------------- collapse_shape, expand_shape -------------------- *)

\* reshapeTensor(tensor, sizes): a fresh tensor of the new sizes that holds
\* the elements of the operand in row-major order.  It requires the two
\* shapes to have the same number of elements.
reshapeTensor(h, tensor, sizes) ==
    LET elements == Elements(h, tensor)
    IN  [heap |-> Append(h, [k \in 1..Prod(sizes) |->
                                IF k <= Len(elements) THEN elements[k] ELSE 0]),
         val  |-> TensorValue(Len(h) + 1, sizes, DefaultStrides(sizes))]

\* The sizes collapseShape computes: per reassociation group, the product
\* of the grouped operand sizes.  Dimensions are numbered from 1 here.
collapseSizes(tensorSizes, reassociation) ==
    [g \in 1..Len(reassociation) |->
        Prod([j \in 1..Len(reassociation[g]) |-> tensorSizes[reassociation[g][j]]])]

\* collapseShape
collapseShape(h, reassociation, tensor) ==
    reshapeTensor(h, tensor, collapseSizes(tensor.sizes, reassociation))

\* The inner loop of expandShape over the dimensions of one group: a
\* dynamic extent is remembered in dynIndex, every other extent divides
\* size.  Division by a zero extent is undefined: it traps, or execution
\* goes on with a quotient of 0.
RECURSIVE expandGroup(_, _, _, _)
expandGroup(size, dynIndex, dstIndices, sizes) ==
    IF dstIndices = <<>>
    THEN {[trapped |-> FALSE, size |-> size, dynIndex |-> dynIndex]}
    ELSE LET dim == Head(dstIndices)
         IN  IF sizes[dim] < 0
             THEN expandGroup(size, dim, Tail(dstIndices), sizes)
             ELSE IF sizes[dim] = 0
                  THEN {[trapped |-> TRUE, size |-> size, dynIndex |-> dynIndex]}
                       \cup expandGroup(0, dynIndex, Tail(dstIndices), sizes)
                  ELSE expandGroup(size \div sizes[dim], dynIndex,
                                   Tail(dstIndices), sizes)

\* The outer loop of expandShape from group srcIndex on: the sizes handed
\* to reshapeTensor, or a trap.  dynIndex 0 stands for std::nullopt.
RECURSIVE expandSizes(_, _, _, _)
expandSizes(tensorSizes, reassociation, srcIndex, sizes) ==
    IF srcIndex > Len(reassociation)
    THEN {[trapped |-> FALSE, sizes |-> sizes]}
    ELSE UNION {
           IF g.trapped
           THEN {[trapped |-> TRUE, sizes |-> sizes]}
           ELSE expandSizes(tensorSizes, reassociation, srcIndex + 1,
                            IF g.dynIndex # 0
                            THEN [sizes EXCEPT ![g.dynIndex] = g.size]
                            ELSE sizes)
           : g \in expandGroup(tensorSizes[srcIndex], 0,
                               reassociation[srcIndex], sizes)}

\* expandShape: the outcomes for an operand, a grouping and the shape of
\* the declared result type.
expandShape(h, reassociation, declared, tensor) ==
    {IF o.trapped
     THEN [trapped |-> TRUE, heap |-> h, val |-> tensor]
     ELSE [trapped |-> FALSE, heap |-> reshapeTensor(h, tensor, o.sizes).heap,
           val |-> reshapeTensor(h, tensor, o.sizes).val]
     : o \in expandSizes(tensor.sizes, reassociation, 1, declared)}

\* Extents of the reshaped tensors are drawn from 0..MaxExtent, and a
\* tensor holds at most MaxElements elements.
MaxExtent == 3
MaxElements == 6

ReshapeShapes ==
    {s \in UNION {[1..r -> 0..MaxExtent] : r \in 1..3} : Prod(s) <= MaxElements}

\* The groups that the cuts C (a cut after dimension c) make of first..r.
RECURSIVE GroupsFrom(_, _, _)
GroupsFrom(first, r, C) ==
    IF first > r THEN <<>>
    ELSE LET last == CHOOSE l \in first..r :
                        /\ l = r \/ l \in C
                        /\ \A m \in first..(l - 1) : m \notin C
         IN  <<[i \in 1..(last - first + 1) |-> first + i - 1]>>
             \o GroupsFrom(last + 1, r, C)

\* Reassociation indices: the groupings of 1..r into contiguous groups.
Reassociations(r) == {GroupsFrom(1, r, C) : C \in SUBSET (1..(r - 1))}

\* Result types of an expand_shape that undoes a collapse of shape s1: s1
\* with at most one extent per group replaced by the dynamic sentinel.
DeclaredShapes(s1, reassociation) ==
    {d \in [1..Len(s1) -> {Dynamic} \cup 0..MaxExtent] :
        /\ \A i \in 1..Len(s1) : d[i] # Dynamic => d[i] = s1[i]
        /\ \A g \in 1..Len(reassociation) :
              Cardinality({j \in 1..Len(reassociation[g]) :
                              d[reassociation[g][j]] = Dynamic}) <= 1}

InitReshape ==
    /\ pc = "idle"
    /\ \E sizes \in ReshapeShapes : \E data \in SliceData(Prod(sizes)) :
          /\ heap = <<data>>
          /\ env = <<TensorValue(1, sizes, DefaultStrides(sizes))>>
    /\ log = <<>>
    /\ failures = 0
    /\ cur = NoCur

\* tensor.collapse_shape of the operand with some grouping.
CollapseShape ==
    /\ pc = "idle"
    /\ \E reassociation \in Reassociations(Len(env[1].sizes)) :
          LET r == collapseShape(heap, reassociation, env[1])
          IN  /\ heap' = r.heap
              /\ env' = Append(env, r.val)
              /\ log' = Append(log, [name |-> "collapse_shape",
                                     reassociation |-> reassociation,
                                     out |-> Len(env) + 1])
    /\ pc' = "collapsed"
    /\ UNCHANGED <<failures, cur>>

\* tensor.expand_shape of the collapsed tensor with the same grouping.
ExpandShape ==
    /\ pc = "collapsed"
    /\ \E declared \in DeclaredShapes(env[1].sizes, log[1].reassociation) :
       \E o \in expandShape(heap, log[1].reassociation, declared, env[2]) :
          LET entry == [name |-> "expand_shape",
                        reassociation |-> log[1].reassociation,
                        declared |-> declared, out |-> Len(env) + 1]
          IN  \/ /\ ~o.trapped
                 /\ heap' = o.heap
                 /\ env' = Append(env, o.val)
                 /\ log' = Append(log, entry)
                 /\ pc' = "expanded"
              \/ /\ o.trapped
                 /\ log' = Append(log, entry)
                 /\ pc' = "crashed"
                 /\ UNCHANGED <<heap, env>>
    /\ UNCHANGED <<failures, cur>>

NextReshape == CollapseShape \/ ExpandShape

SpecReshape == InitReshape /\ [][NextReshape]_vars

(* C1: single-point update locality.  Whenever an insert of value v at an  *)
(* in-bounds index i of tensor t is followed by an extract from its result *)
(* at an in-bounds index j, the extract returns v if j = i and the element *)
(* of t at j otherwise, and neither call raises a failure.                 *)
C1_UpdateLocality ==
    \A a \in DOMAIN log : \A b \in DOMAIN log :
        ( /\ a < b
          /\ log[a].name = "insert"
          /\ log[b].name = "extract"
          /\ log[b].tensor = log[a].out
          /\ InBounds(env[log[a].tensor], log[a].indices)
          /\ InBounds(env[log[b].tensor], log[b].indices) )
        => /\ log[b].out =
                 IF log[b].indices = log[a].indices
                 THEN Scalar(log[a].value)
                 ELSE Scalar(log[a].before[
                          PhysicalIndex(env[log[a].tensor], log[b].indices) + 1])
           /\ log[a].failuresAfter = log[a].failuresBefore
           /\ log[b].failuresAfter = log[b].failuresBefore

\* An in-bounds insert changed an element and the extract read it back.
C1_Witness ==
    /\ Len(log) = 2
    /\ log[1].name = "insert"
    /\ log[2].name = "extract"
    /\ log[2].tensor = log[1].out
    /\ InBounds(env[log[1].tensor], log[1].indices)
    /\ log[2].indices = log[1].indices
    /\ log[1].value # ExtractElement(heap, env[log[1].tensor], log[1].indices)
    /\ log[2].out = Scalar(log[1].value)

(* C2: out-of-bounds handling.  An extract or insert whose index is not in *)
(* bounds raises a failure and touches no element; the extract returns an  *)
(* empty value and the insert returns a clone equal to its operand.  An    *)
(* in-bounds extract or insert raises no failure.                          *)
C2_OutOfBounds ==
    \A a \in DOMAIN log :
        LET e == log[a]
            t == env[e.tensor]
        IN  /\ (e.name = "extract" /\ ~InBounds(t, e.indices))
                => /\ e.failuresAfter = e.failuresBefore + 1
                   /\ e.reads = {}
                   /\ e.out = EmptyValue
            /\ (e.name = "extract" /\ InBounds(t, e.indices))
                => /\ e.failuresAfter = e.failuresBefore
                   /\ e.out.kind = "scalar"
            /\ (e.name = "insert" /\ ~InBounds(t, e.indices))
                => /\ e.failuresAfter = e.failuresBefore + 1
                   /\ e.writes = {}
                   /\ env[e.out].buf # t.buf
                   /\ env[e.out].sizes = t.sizes
                   /\ Elements(heap, env[e.out]) = e.before
            /\ (e.name = "insert" /\ InBounds(t, e.indices))
                => e.failuresAfter = e.failuresBefore

\* An out-of-bounds insert followed by an out-of-bounds extract, both of
\* which raised a failure.
C2_Witness ==
    /\ Len(log) = 2
    /\ log[1].name = "insert"
    /\ ~InBounds(env[log[1].tensor], log[1].indices)
    /\ log[2].name = "extract"
    /\ ~InBounds(env[log[2].tensor], log[2].indices)
    /\ failures = log[1].failuresBefore + 2

C10_SliceIndexBounds ==
    \A a \in DOMAIN log :
        /\ log[a].name = "extractSlice"
               => \A ix \in log[a].reads : InBounds(env[log[a].tensor], ix)
        /\ log[a].name = "insertSlice"
               => \A ix \in log[a].writes : InBounds(log[a].destView, ix)

\* An extractSlice all of whose reads are in bounds, with the declared
\* result shape equal to the static sizes (no rank reduction).
InBoundsSlice(e) ==
    /\ e.name = "extractSlice"
    /\ e.out # 0
    /\ \A ix \in e.reads : InBounds(env[e.tensor], ix)
    /\ e.resultSizes = e.op.staticSizes

(* C6: slice round trip.  For offsets, sizes and strides that select only  *)
(* in-bounds coordinates of t, without rank reduction, the slice s has the *)
(* resolved sizes and s[c] = t[c * stride + offset] for every coordinate   *)
(* c; and insert_slice of s into t with the same offsets, sizes and        *)
(* strides returns a tensor equal to t at every coordinate.                *)
C6_SliceRoundTrip ==
    /\ (pc = "sliced" /\ InBoundsSlice(log[Len(log)]))
        => LET e == log[Len(log)]
               s == env[e.out]
           IN  /\ s.sizes = e.v.sizes
               /\ Len(heap[s.buf]) = Prod(s.sizes)
               /\ \A k \in 1..Prod(s.sizes) :
                     ExtractElement(heap, s, Unrank(k - 1, s.sizes)) =
                        e.before[PhysicalIndex(env[e.tensor],
                            [i \in 1..Len(s.sizes) |->
                                Unrank(k - 1, s.sizes)[i] * e.v.strides[i]
                                    + e.v.offsets[i]]) + 1]
    /\ ( /\ Len(log) = 2
         /\ InBoundsSlice(log[1])
         /\ log[2].name = "insertSlice"
         /\ log[2].numResults = 1
         /\ log[2].src = log[1].out
         /\ log[2].dest = log[1].tensor
         /\ log[2].op = log[1].op )
        => /\ pc = "inserted"
           /\ Len(env) = 3
           /\ env[3].sizes = env[1].sizes
           /\ Elements(heap, env[3]) = log[1].before
           /\ Elements(heap, env[1]) = log[1].before

\* A strided two-element slice holding a nonzero element was taken and
\* inserted back at the same place.
C6_Witness ==
    /\ pc = "inserted"
    /\ Len(log) = 2
    /\ InBoundsSlice(log[1])
    /\ log[2].numResults = 1
    /\ log[2].op = log[1].op
    /\ Prod(log[1].v.sizes) = 2
    /\ \E i \in DOMAIN log[1].v.strides : log[1].v.strides[i] = 2
    /\ \E i \in DOMAIN log[1].v.offsets : log[1].v.offsets[i] = 1
    /\ \E k \in DOMAIN heap[env[2].buf] : heap[env[2].buf][k] # 0
    /\ Elements(heap, env[3]) = log[1].before

(* C9: rank reduction of extractSlice.  The loop never reads the static    *)
(* size list past its end and ends with every static size visited; for a   *)
(* declared result shape obtained from the static sizes by deleting some   *)
(* unit entries, the returned view has the declared rank, sizes and        *)
(* strides of equal length, sizes that agree with every static entry of    *)
(* the declared shape, and its sizes are the resolved sizes with a set of  *)
(* static unit dimensions deleted that also turns the static sizes into    *)
(* the declared shape.                                                     *)
C9_RankReduction ==
    /\ pc = "rankReduce"
        => /\ ~cur.r.overrun
           /\ Len(cur.r.sizes) = Len(cur.r.strides)
           /\ cur.r.dim + cur.r.numDropped <= Len(cur.r.staticSizes)
           /\ cur.r.dim < Len(cur.r.sizes)
                 => cur.r.numDropped + cur.r.dim < Len(cur.r.staticSizes)
    /\ \A a \in DOMAIN log :
          (log[a].name = "extractSlice" /\ log[a].out # 0 /\ a = Len(log)
           /\ pc = "sliced")
          => LET e == log[a]
                 view == env[e.out]
             IN  /\ Len(view.sizes) = Len(e.resultSizes)
                 /\ Len(view.strides) = Len(view.sizes)
                 /\ e.numDropped = Len(e.op.staticSizes) - Len(e.resultSizes)
                 /\ \A i \in DOMAIN view.sizes :
                       e.resultSizes[i] # Dynamic => view.sizes[i] = e.resultSizes[i]
                 /\ \E drop \in SUBSET {i \in DOMAIN e.op.staticSizes :
                                          e.op.staticSizes[i] = 1} :
                       /\ Without(e.v.sizes, drop, 1) = view.sizes
                       /\ Without(e.op.staticSizes, drop, 1) = e.resultSizes

\* A slice with static sizes <<1, 1, 2>> and declared shape <<1, 2>> has
\* returned: one unit dimension was dropped and one was kept.
C9_Witness ==
    /\ pc = "sliced"
    /\ log[Len(log)].op.staticSizes = <<1, 1, 2>>
    /\ log[Len(log)].resultSizes = <<1, 2>>
    /\ log[Len(log)].numDropped = 1
    /\ env[log[Len(log)].out].sizes = <<1, 2>>

\* generate has returned after a region that raised a failure for exactly
\* the k-th coordinate, entered with the failure flag clear.
GeneratedFailingAt(k) ==
    /\ pc = "generated"
    /\ log[1].failuresBefore = 0
    /\ log[1].failAt = {k}

(* C4, as claimed: a region that fails for exactly one coordinate k leaves *)
(* the default element at k and the region's value at every other          *)
(* coordinate, before and after k, and the failure flag is set once.       *)
C4_OnlyFailedCoordinateDefault ==
    pc = "generated" =>
        \A k \in DOMAIN log[1].f :
            GeneratedFailingAt(k)
            => /\ heap[env[1].buf][k] = 0
               /\ \A c \in DOMAIN log[1].f :
                     c # k => heap[env[1].buf][c] = log[1].f[c]
               /\ log[1].failuresAfter = 1

(* C4, amended: a region that fails for exactly one coordinate k leaves    *)
(* the region's value at every coordinate before k and the default         *)
(* element at k and at every coordinate after k, and the failure flag is   *)
(* set once.                                                               *)
C4_DefaultFromFailedCoordinate ==
    pc = "generated" =>
        \A k \in DOMAIN log[1].f :
            GeneratedFailingAt(k)
            => /\ \A c \in DOMAIN log[1].f :
                     heap[env[1].buf][c] = IF c < k THEN log[1].f[c] ELSE 0
               /\ log[1].failuresAfter = 1

\* generate over shape [3] whose region fails at the middle coordinate and
\* computes nonzero values: the first element is computed, the rest default.
C4_Witness ==
    /\ GeneratedFailingAt(2)
    /\ env[1].sizes = <<3>>
    /\ \A c \in 1..3 : log[1].f[c] # 0
    /\ heap[env[1].buf] = <<log[1].f[1], 0, 0>>

(* C5: pad absorbs region failures.  Whenever the region call for a        *)
(* padding coordinate raises a failure or yields no value, pad stores the  *)
(* value that was already at that coordinate of the result (the default    *)
(* element) instead of the call's result, and it returns a tensor of the   *)
(* full shape.                                                             *)
C5_PadAbsorbsFailure ==
    /\ pc # "crashed"
    /\ pc = "pad"
        => \A j \in DOMAIN cur.calls :
              (cur.calls[j].raised \/ cur.calls[j].values = <<>>)
              => heap[cur.result.buf][cur.calls[j].k] = 0
    /\ pc = "padded"
        => /\ env[2].sizes = padResultSizes(env[1].sizes, log[1].lows, log[1].highs)
           /\ \A j \in DOMAIN log[1].calls :
                 (log[1].calls[j].raised \/ log[1].calls[j].values = <<>>)
                 => heap[env[2].buf][log[1].calls[j].k] = 0

(* C7: pad result.  pad returns a tensor whose size in each dimension is   *)
(* the input size plus low plus high; its element at output coordinate o   *)
(* is the input element at o - low when that is in bounds, and the region  *)
(* is not called for o; otherwise the region is called for o exactly once  *)
(* and the element is the value that call returned.                        *)
C7_PadResult ==
    pc = "padded" =>
        LET e == log[1]
            tensor == env[1]
            result == env[2]
        IN  /\ Len(result.sizes) = Len(tensor.sizes)
            /\ \A d \in DOMAIN tensor.sizes :
                  result.sizes[d] = tensor.sizes[d] + e.lows[d] + e.highs[d]
            /\ Len(heap[result.buf]) = Prod(result.sizes)
            /\ \A k \in 1..Prod(result.sizes) :
                  LET o == Unrank(k - 1, result.sizes)
                      in == [d \in DOMAIN o |-> o[d] - e.lows[d]]
                      called == {j \in DOMAIN e.calls : e.calls[j].k = k}
                  IN  IF InBounds(tensor, in)
                      THEN /\ heap[result.buf][k] =
                                 e.before[PhysicalIndex(tensor, in) + 1]
                           /\ called = {}
                      ELSE /\ Cardinality(called) = 1
                           /\ \A j \in called :
                                 e.calls[j].values # <<>>
                                 => heap[result.buf][k] = e.calls[j].values[1]

\* A vector of two nonzero elements padded by one on each side with a
\* region that returns zero: the result is <<0, x, y, 0>>.
C7_Witness ==
    /\ pc = "padded"
    /\ env[1].sizes = <<2>>
    /\ log[1].lows = <<1>> /\ log[1].highs = <<1>>
    /\ log[1].region = [kind |-> "constant", c |-> 0]
    /\ log[1].failAt = {}
    /\ log[1].before = <<1, 1>>
    /\ heap[env[2].buf] = <<0, 1, 1, 0>>
    /\ Len(log[1].calls) = 2

(* C8: collapse/expand round trip.  For every tensor of shape s1 (zero     *)
(* extents allowed) and every grouping of its dimensions into contiguous   *)
(* groups, collapseShape yields one size per group, the product of the     *)
(* grouped sizes; expandShape of that result with the same grouping and a  *)
(* declared shape equal to s1 with at most one dynamic extent per group    *)
(* completes and yields shape s1 with the original row-major elements.     *)
C8_CollapseExpandRoundTrip ==
    /\ pc # "crashed"
    /\ pc \in {"collapsed", "expanded"}
        => /\ Len(env[2].sizes) = Len(log[1].reassociation)
           /\ \A g \in DOMAIN env[2].sizes :
                 env[2].sizes[g] =
                    Prod([j \in 1..Len(log[1].reassociation[g]) |->
                             env[1].sizes[log[1].reassociation[g][j]]])
    /\ pc = "expanded"
        => /\ env[3].sizes = env[1].sizes
           /\ Elements(heap, env[3]) = Elements(heap, env[1])

====
